---- MODULE Spec2Model ----
(***************************************************************************)
(* Order processor (src/app.py): one invocation of lambda_handler over a   *)
(* batch of SQS records, with validate_order, send_order_event and         *)
(* notify_order_status, and the two collaborators (EventBridge put_events, *)
(* SNS publish) as nondeterministic responses.                             *)
(***************************************************************************)
EXTENDS Integers, Sequences, FiniteSets

(* ------------------------------ bounds --------------------------------- *)
MaxBatch == 2

(* ------------------------- program constants --------------------------- *)
MAX_RETRIES == 0
REQUIRED_FIELDS == <<"orderId", "customerId", "items", "total">>

(* --------------------------- JSON values -------------------------------- *)
(* A decoded JSON value: its Python type and, for a number its value, for  *)
(* a bool 0/1, for a string, array or object its length.                   *)
JNull == [kind |-> "null", n |-> 0]
JNaN == [kind |-> "nan", n |-> 0]
JBool(b) == [kind |-> "bool", n |-> IF b THEN 1 ELSE 0]
JNum(k) == [kind |-> "number", n |-> k]
JStr(len) == [kind |-> "string", n |-> len]
JArr(len) == [kind |-> "array", n |-> len]
JObj(len) == [kind |-> "object", n |-> len]

(* Python truth value of a decoded value (`not items`). *)
Truthy(v) ==
  CASE v.kind = "null" -> FALSE
    [] v.kind = "nan" -> TRUE
    [] v.kind \in {"bool", "number"} -> v.n # 0
    [] OTHER -> v.n > 0

(* len(v) is defined for strings, arrays and objects; TypeError otherwise. *)
HasLen(v) == v.kind \in {"string", "array", "object"}

(* v <= 0 is defined for bool, int and float; TypeError otherwise. *)
Comparable(v) == v.kind \in {"bool", "number", "nan"}

(* v <= 0 for a comparable v: every comparison with NaN is false. *)
LeZero(v) == v.kind # "nan" /\ v.n <= 0

(* The checks of validate_order, lines 176-194: "true", "false", or        *)
(* "raise" when evaluating a check raises.                                 *)
validate_checks(order) ==
  IF \E i \in 1..Len(REQUIRED_FIELDS) : REQUIRED_FIELDS[i] \notin DOMAIN order
  THEN "false"
  ELSE LET items == order["items"]
           total == order["total"]
       IN  IF ~Truthy(items) THEN "false"
           ELSE IF ~HasLen(items) THEN "raise"
           ELSE IF items.n = 0 THEN "false"
           ELSE IF ~Comparable(total) THEN "raise"
           ELSE IF LeZero(total) THEN "false"
           ELSE "true"

(* validate_order: an exception in a check is caught and gives False. *)
validate_order(order) == validate_checks(order) = "true"

(* --------------------------- input domains ------------------------------ *)
(* The example order of the docstring (lines 165-172) and of the spec.     *)
ORD_001 == [orderId |-> JStr(7), customerId |-> JStr(8), items |-> JArr(1), total |-> JNum(59)]
(* An order with an empty items array. *)
ORD_002 == [orderId |-> JStr(7), customerId |-> JStr(6), items |-> JArr(0), total |-> JNum(10)]

(* A record's body: the key is absent, the text is not JSON, the text is   *)
(* JSON for something that is no mapping, or the text is JSON for an order. *)
NoBody == [kind |-> "absent", order |-> ORD_001]
Garbage == [kind |-> "undecodable", order |-> ORD_001]
JsonList == [kind |-> "nonmapping", order |-> ORD_001]
OrderBody(o) == [kind |-> "order", order |-> o]
Bodies == {NoBody, Garbage, JsonList, OrderBody(ORD_001), OrderBody(ORD_002)}

(* A record's messageId: absent or a string. *)
MessageIds == {"absent", "m1"}

(* A record's attributes: absent, present but no mapping, or a mapping     *)
(* holding ApproximateReceiveCount.                                         *)
CounterValues == {"1", "2"}
Attributes == {"absent", "malformed"} \cup CounterValues

SqsRecords == [messageId : MessageIds, body : Bodies, attributes : Attributes]

RECURSIVE Batches(_)
Batches(n) ==
  IF n = 0 THEN {<<>>}
  ELSE Batches(n - 1) \cup { Append(b, r) : b \in {c \in Batches(n - 1) : Len(c) = n - 1}, r \in SqsRecords }

TopicArns == {"", "arn:aws:sns:OrderEvents"}
BusResponses == {"ok", "partial", "throw"}
TopicResponses == {"ok", "throw"}

(* ------------------------------- state ---------------------------------- *)
VARIABLES
  SNS_TOPIC_ARN,    \* module global, line 35
  Records,          \* event['Records']
  pc,               \* position of the invocation
  idx,              \* number of records the for loop has taken
  message_id,       \* line 87
  receive_count,    \* line 88
  message_body,     \* line 92
  success_count,    \* line 82
  failed_messages,  \* line 83
  calls,            \* collaborator calls made, in order
  busOutcome,       \* what put_events did for the current record
  topicOutcome,     \* what publish did for the current record
  result,           \* the value lambda_handler returned
  order,            \* argument of a direct validate_order call
  valid             \* what that call returned

vars == <<SNS_TOPIC_ARN, Records, pc, idx, message_id, receive_count, message_body,
          success_count, failed_messages, calls, busOutcome, topicOutcome, result,
          order, valid>>

NoResult == [returned |-> FALSE]

(* ----------------------- collaborator wrappers -------------------------- *)
(* The entry / message is built from order['orderId'], order['customerId'] *)
(* and order['total']: KeyError when one is missing.                       *)
PayloadBuilds(o) == {"orderId", "customerId", "total"} \subseteq DOMAIN o

(* send_order_event with no except clause: what put_events raises escapes. *)
send_order_event_uncaught(o, event_type, resp) ==
  LET built == PayloadBuilds(o)
      thrown == ~built \/ resp = "throw"
  IN  [called |-> built, raises |-> thrown]

(* send_order_event: the try block builds the entry and calls put_events;  *)
(* except Exception catches whatever it raises.                            *)
send_order_event(o, event_type, resp) ==
  LET built == PayloadBuilds(o)
      thrown == ~built \/ resp = "throw"
      caught == thrown
  IN  [called |-> built, raises |-> thrown /\ ~caught]

(* notify_order_status with no check of SNS_TOPIC_ARN: it publishes to     *)
(* whatever the global holds.                                              *)
notify_order_status_unguarded(o, status, resp) ==
  LET built == PayloadBuilds(o)
      thrown == ~built \/ resp = "throw"
      caught == thrown
  IN  [called |-> built, raises |-> thrown /\ ~caught]

(* notify_order_status: returns at once when SNS_TOPIC_ARN is empty; else  *)
(* the try block builds the message and calls publish; except Exception    *)
(* catches whatever it raises.                                             *)
notify_order_status(o, status, resp) ==
  IF SNS_TOPIC_ARN = ""
  THEN [called |-> FALSE, raises |-> FALSE]
  ELSE LET built == PayloadBuilds(o)
           thrown == ~built \/ resp = "throw"
           caught == thrown
       IN  [called |-> built, raises |-> thrown /\ ~caught]

(* ------------------------------ actions --------------------------------- *)
Init ==
  /\ SNS_TOPIC_ARN \in TopicArns
  /\ Records \in Batches(MaxBatch)
  /\ pc = "fetch"
  /\ idx = 0
  /\ message_id = "unknown"
  /\ receive_count = "1"
  /\ message_body = ORD_001
  /\ success_count = 0
  /\ failed_messages = <<>>
  /\ calls = <<>>
  /\ busOutcome = "none"
  /\ topicOutcome = "none"
  /\ result = NoResult
  /\ order = ORD_001
  /\ valid = "none"

(* NextRecord with a max-attempt cutoff: a record received more than once  *)
(* is diverted to the failure path without being decoded.                  *)
NextRecordWithCutoff ==
  /\ pc = "fetch"
  /\ idx < Len(Records)
  /\ LET record == Records[idx + 1]
     IN  /\ idx' = idx + 1
         /\ message_id' = IF record.messageId = "absent" THEN "unknown" ELSE record.messageId
         /\ IF record.attributes = "malformed"
            THEN /\ pc' = "raised"
                 /\ UNCHANGED receive_count
            ELSE /\ pc' = IF record.attributes = "2" THEN "except" ELSE "decode"
                 /\ receive_count' = IF record.attributes = "absent" THEN "1" ELSE record.attributes
  /\ busOutcome' = "none"
  /\ topicOutcome' = "none"
  /\ UNCHANGED <<SNS_TOPIC_ARN, Records, message_body, success_count, failed_messages,
                 calls, result, order, valid>>

(* Lines 86-88: the for loop takes the next record; message_id and         *)
(* receive_count are read outside the try block.                           *)
NextRecord ==
  /\ pc = "fetch"
  /\ idx < Len(Records)
  /\ LET record == Records[idx + 1]
     IN  /\ idx' = idx + 1
         /\ message_id' = IF record.messageId = "absent" THEN "unknown" ELSE record.messageId
         /\ IF record.attributes = "malformed"
            THEN /\ pc' = "raised"
                 /\ UNCHANGED receive_count
            ELSE /\ pc' = "decode"
                 /\ receive_count' = IF record.attributes = "absent" THEN "1" ELSE record.attributes
  /\ busOutcome' = "none"
  /\ topicOutcome' = "none"
  /\ UNCHANGED <<SNS_TOPIC_ARN, Records, message_body, success_count, failed_messages,
                 calls, result, order, valid>>

(* Lines 92-96: json.loads(record['body']) and message_body.get. *)
Decode ==
  /\ pc = "decode"
  /\ LET body == Records[idx].body
     IN  IF body.kind = "order"
         THEN /\ message_body' = body.order
              /\ pc' = "validate"
         ELSE /\ pc' = "except"
              /\ UNCHANGED message_body
  /\ UNCHANGED <<SNS_TOPIC_ARN, Records, idx, message_id, receive_count, success_count,
                 failed_messages, calls, busOutcome, topicOutcome, result, order, valid>>

(* Lines 99-100. *)
Validate ==
  /\ pc = "validate"
  /\ pc' = IF validate_order(message_body) THEN "send" ELSE "except"
  /\ UNCHANGED <<SNS_TOPIC_ARN, Records, idx, message_id, receive_count, message_body,
                 success_count, failed_messages, calls, busOutcome, topicOutcome, result,
                 order, valid>>

(* SendEvent with one retry of a put_events call that threw. *)
SendEventRetrying ==
  /\ pc = "send"
  /\ \E resp \in BusResponses :
       LET r == send_order_event(message_body, "ORDER_PROCESSED", resp)
           call == [idx |-> idx, api |-> "put_events"]
       IN  /\ calls' = IF ~r.called THEN calls
                       ELSE IF resp = "throw" THEN calls \o <<call, call>>
                       ELSE Append(calls, call)
           /\ busOutcome' = IF r.called THEN resp ELSE "unbuilt"
           /\ pc' = IF r.raises THEN "except" ELSE "notify"
  /\ UNCHANGED <<SNS_TOPIC_ARN, Records, idx, message_id, receive_count, message_body,
                 success_count, failed_messages, topicOutcome, result, order, valid>>

(* Line 104. *)
SendEvent ==
  /\ pc = "send"
  /\ \E resp \in BusResponses :
       LET r == send_order_event(message_body, "ORDER_PROCESSED", resp)
       IN  /\ calls' = IF r.called THEN Append(calls, [idx |-> idx, api |-> "put_events"]) ELSE calls
           /\ busOutcome' = IF r.called THEN resp ELSE "unbuilt"
           /\ pc' = IF r.raises THEN "except" ELSE "notify"
  /\ UNCHANGED <<SNS_TOPIC_ARN, Records, idx, message_id, receive_count, message_body,
                 success_count, failed_messages, topicOutcome, result, order, valid>>

(* Line 108. *)
Notify ==
  /\ pc = "notify"
  /\ \E resp \in TopicResponses :
       LET r == notify_order_status(message_body, "processed", resp)
       IN  /\ calls' = IF r.called THEN Append(calls, [idx |-> idx, api |-> "publish"]) ELSE calls
           /\ topicOutcome' = IF r.called THEN resp ELSE "skipped"
           /\ pc' = IF r.raises THEN "except" ELSE "count"
  /\ UNCHANGED <<SNS_TOPIC_ARN, Records, idx, message_id, receive_count, message_body,
                 success_count, failed_messages, busOutcome, result, order, valid>>

(* Lines 110-111. *)
CountSuccess ==
  /\ pc = "count"
  /\ success_count' = success_count + 1
  /\ pc' = "fetch"
  /\ UNCHANGED <<SNS_TOPIC_ARN, Records, idx, message_id, receive_count, message_body,
                 failed_messages, calls, busOutcome, topicOutcome, result, order, valid>>

(* HandleFailure that logs the error and lists nothing. *)
HandleFailureSwallows ==
  /\ pc = "except"
  /\ pc' = "fetch"
  /\ UNCHANGED <<SNS_TOPIC_ARN, Records, idx, message_id, receive_count, message_body,
                 success_count, failed_messages, calls, busOutcome, topicOutcome, result,
                 order, valid>>

(* HandleFailure that lists the failed message and, with it, every record  *)
(* of the batch not yet taken.                                             *)
HandleFailureFailsRest ==
  /\ pc = "except"
  /\ failed_messages' =
       Append(failed_messages, [itemIdentifier |-> message_id]) \o
       [j \in 1..(Len(Records) - idx) |->
          [itemIdentifier |-> IF Records[idx + j].messageId = "absent" THEN "unknown"
                              ELSE Records[idx + j].messageId]]
  /\ pc' = "fetch"
  /\ UNCHANGED <<SNS_TOPIC_ARN, Records, idx, message_id, receive_count, message_body,
                 success_count, calls, busOutcome, topicOutcome, result, order, valid>>

(* Lines 113-123. *)
HandleFailure ==
  /\ pc = "except"
  /\ failed_messages' = Append(failed_messages, [itemIdentifier |-> message_id])
  /\ pc' = "fetch"
  /\ UNCHANGED <<SNS_TOPIC_ARN, Records, idx, message_id, receive_count, message_body,
                 success_count, calls, busOutcome, topicOutcome, result, order, valid>>

(* Lines 126-146: the loop is over; the body of the success response is    *)
(* the JSON text of {processed, failed}.                                   *)
Return ==
  /\ pc = "fetch"
  /\ idx = Len(Records)
  /\ result' = IF failed_messages # <<>>
               THEN [returned |-> TRUE, batchItemFailures |-> failed_messages]
               ELSE [returned |-> TRUE, statusCode |-> 200,
                     body |-> [processed |-> success_count, failed |-> 0]]
  /\ pc' = "returned"
  /\ UNCHANGED <<SNS_TOPIC_ARN, Records, idx, message_id, receive_count, message_body,
                 success_count, failed_messages, calls, busOutcome, topicOutcome, order, valid>>

InFlight == {"fetch", "decode", "validate", "send", "notify", "count", "except"}

(* The execution environment's time budget (Timeout: 10 seconds, line 20;  *)
(* the remaining time is only logged, line 79) ends the invocation         *)
(* wherever it is: the handler has no timer of its own, its locals are     *)
(* gone and nothing is returned.                                           *)
Timeout ==
  /\ pc \in InFlight
  /\ pc' = "timed_out"
  /\ message_id' = "unknown"
  /\ receive_count' = "1"
  /\ message_body' = ORD_001
  /\ busOutcome' = "none"
  /\ topicOutcome' = "none"
  /\ UNCHANGED <<SNS_TOPIC_ARN, Records, idx, success_count, failed_messages, calls,
                 result, order, valid>>

Next ==
  \/ NextRecord
  \/ Decode
  \/ Validate
  \/ SendEvent
  \/ Notify
  \/ CountSuccess
  \/ HandleFailure
  \/ Return
  \/ Timeout

Spec == Init /\ [][Next]_vars

(* ------------------- validate_order called directly -------------------- *)
JsonValues ==
  {JNull, JNaN, JBool(FALSE), JBool(TRUE), JNum(-1), JNum(0), JNum(1),
   JStr(0), JStr(2), JArr(0), JArr(1), JArr(2), JObj(0), JObj(1)}

(* Every mapping from some of the required keys to decoded values. *)
Orders ==
  UNION { [K -> JsonValues] : K \in SUBSET {REQUIRED_FIELDS[i] : i \in 1..Len(REQUIRED_FIELDS)} }

InitValidate ==
  /\ order \in Orders
  /\ valid = "none"
  /\ SNS_TOPIC_ARN = ""
  /\ Records = <<>>
  /\ pc = "validate_order"
  /\ idx = 0
  /\ message_id = "unknown"
  /\ receive_count = "1"
  /\ message_body = ORD_001
  /\ success_count = 0
  /\ failed_messages = <<>>
  /\ calls = <<>>
  /\ busOutcome = "none"
  /\ topicOutcome = "none"
  /\ result = NoResult

(* Lines 149-198: one call of validate_order(order). *)
ValidateOrderCall ==
  /\ pc = "validate_order"
  /\ valid' = IF validate_order(order) THEN "true" ELSE "false"
  /\ pc' = "validated"
  /\ UNCHANGED <<SNS_TOPIC_ARN, Records, idx, message_id, receive_count, message_body,
                 success_count, failed_messages, calls, busOutcome, topicOutcome, result,
                 order>>

NextValidate == ValidateOrderCall

SpecValidate == InitValidate /\ [][NextValidate]_vars

(* ====================== properties of the handler ======================= *)
(* The record's body decodes to a mapping and validate_order accepts it. *)
Passes(r) == r.body.kind = "order" /\ validate_order(r.body.order)

(* The identifier the handler reports a record under (line 87). *)
Identifier(r) == IF r.messageId = "absent" THEN "unknown" ELSE r.messageId

(* Among the first k records, the indices of those that pass / fail. *)
PassIdx(k) == {i \in 1..k : Passes(Records[i])}
FailIdx(k) == {i \in 1..k : ~Passes(Records[i])}

Terminated == pc \in {"returned", "raised"}

(* The identifiers listed in the returned batchItemFailures. *)
ReportedIds ==
  IF "batchItemFailures" \in DOMAIN result
  THEN {result.batchItemFailures[j].itemIdentifier : j \in 1..Len(result.batchItemFailures)}
  ELSE {}

ReportedCount ==
  IF "batchItemFailures" \in DOMAIN result THEN Len(result.batchItemFailures) ELSE 0

(* The calls of one api made for record i. *)
CallsFor(i, api) == {j \in 1..Len(calls) : calls[j].idx = i /\ calls[j].api = api}

(* C1: when the invocation is over it has returned a result whose          *)
(* batchItemFailures names exactly the identifiers of the messages that    *)
(* failed decode or validation (one entry when one message failed), and no *)
(* identifier of a message that succeeded, also when records carry no      *)
(* messageId or share one.                                                 *)
C1_FailuresNameExactlyTheFailed ==
  Terminated =>
    /\ pc = "returned"
    /\ ReportedIds = {Identifier(Records[i]) : i \in FailIdx(Len(Records))}
    /\ ReportedIds \cap {Identifier(Records[i]) : i \in PassIdx(Len(Records))} = {}
    /\ (Cardinality(FailIdx(Len(Records))) = 1 => ReportedCount = 1)

(* C2: when the invocation is over for a batch (the empty one included)    *)
(* whose messages all decode and validate, it has returned statusCode 200  *)
(* with body {processed: N, failed: 0}, N the batch size, and no           *)
(* batchItemFailures key.                                                  *)
C2_AllValidReturnsProcessedN ==
  (Terminated /\ FailIdx(Len(Records)) = {}) =>
    /\ pc = "returned"
    /\ DOMAIN result = {"returned", "statusCode", "body"}
    /\ result.statusCode = 200
    /\ result.body = [processed |-> Len(Records), failed |-> 0]

(* C5: whatever the records hold, the handler never raises; it returns     *)
(* with every record taken and every message-level failure listed.         *)
C5_HandlerNeverRaises ==
  /\ pc # "raised"
  /\ pc = "returned" =>
       /\ idx = Len(Records)
       /\ ReportedCount = Cardinality(FailIdx(Len(Records)))

(* Witness of C1's case: a returned batch of two records without messageId *)
(* of which one failed and one succeeded.                                  *)
C1_Case ==
  /\ pc = "returned"
  /\ Len(Records) = 2
  /\ \A i \in 1..2 : Records[i].messageId = "absent"
  /\ Cardinality(FailIdx(2)) = 1

(* The failures and the collaborator calls the first k records give rise   *)
(* to, as functions of the records' messageId and body alone.              *)
RECURSIVE FailureList(_, _)
FailureList(recs, k) ==
  IF k = 0 THEN <<>>
  ELSE IF Passes(recs[k]) THEN FailureList(recs, k - 1)
  ELSE Append(FailureList(recs, k - 1), [itemIdentifier |-> Identifier(recs[k])])

RECURSIVE CallList(_, _)
CallList(recs, k) ==
  IF k = 0 THEN <<>>
  ELSE IF ~Passes(recs[k]) THEN CallList(recs, k - 1)
  ELSE IF SNS_TOPIC_ARN = "" THEN Append(CallList(recs, k - 1), [idx |-> k, api |-> "put_events"])
  ELSE CallList(recs, k - 1) \o <<[idx |-> k, api |-> "put_events"], [idx |-> k, api |-> "publish"]>>

(* The batch with every ApproximateReceiveCount value erased. *)
EraseCounters(recs) ==
  [i \in 1..Len(recs) |->
     [recs[i] EXCEPT !.attributes = IF @ \in CounterValues THEN "counter" ELSE @]]

(* The records before the first one whose attributes are no mapping. *)
WellFormedPrefix(recs) ==
  IF \E i \in 1..Len(recs) : recs[i].attributes = "malformed"
  THEN (CHOOSE i \in 1..Len(recs) :
          /\ recs[i].attributes = "malformed"
          /\ \A j \in 1..(i - 1) : recs[j].attributes # "malformed") - 1
  ELSE Len(recs)

(* C3: once put_events or publish has been called for a message, whatever  *)
(* the call did (succeeded, partial failure, threw), control stays on the  *)
(* success path: nothing propagates to the failure handler or out of the   *)
(* invocation, and at the end of the iteration the message is counted as   *)
(* successful and not listed as failed.                                    *)
C3_CollaboratorOutcomeIrrelevant ==
  /\ busOutcome # "none" => pc \in {"notify", "count", "fetch", "returned"}
  /\ topicOutcome # "none" => pc \in {"count", "fetch", "returned"}
  /\ (busOutcome # "none" /\ pc \in {"fetch", "returned"}) =>
       /\ Passes(Records[idx])
       /\ success_count = Cardinality(PassIdx(idx))
       /\ failed_messages = FailureList(Records, idx)

C3_Case ==
  /\ pc = "returned"
  /\ busOutcome = "throw"
  /\ topicOutcome = "throw"
  /\ success_count = Len(Records)

(* C7: the outcome of an invocation (raised or returned, the result, the   *)
(* failures, the success count, the sequence of collaborator calls) is a   *)
(* function of the batch with the counter values erased: two batches that  *)
(* differ only in counter values end alike, and no counter value drops,    *)
(* fails or diverts a message.                                             *)
C7_CounterGatesNothing ==
  Terminated =>
    LET recs == EraseCounters(Records)
        k == WellFormedPrefix(recs)
    IN  /\ (pc = "raised") = (k < Len(recs))
        /\ failed_messages = FailureList(recs, k)
        /\ success_count = k - Len(FailureList(recs, k))
        /\ calls = CallList(recs, k)
        /\ pc = "returned" =>
             result = IF FailureList(recs, k) # <<>>
                      THEN [returned |-> TRUE, batchItemFailures |-> FailureList(recs, k)]
                      ELSE [returned |-> TRUE, statusCode |-> 200,
                            body |-> [processed |-> k, failed |-> 0]]

C7_Case ==
  /\ pc = "returned"
  /\ \E i \in 1..Len(Records) : Records[i].attributes = "2" /\ Passes(Records[i])
  /\ \E i \in 1..Len(Records) : Records[i].attributes = "1" /\ ~Passes(Records[i])

(* C8: with SNS_TOPIC_ARN empty no publish call is ever made, and once     *)
(* notify_order_status has been skipped for a message nothing was raised,  *)
(* put_events has been attempted for that message, and at the end of the   *)
(* iteration the message is counted as successful.                         *)
C8_UnsetTopicIsNoOp ==
  SNS_TOPIC_ARN = "" =>
    /\ \A j \in 1..Len(calls) : calls[j].api # "publish"
    /\ topicOutcome \in {"none", "skipped"}
    /\ topicOutcome = "skipped" =>
         /\ pc \in {"count", "fetch", "returned"}
         /\ CallsFor(idx, "put_events") # {}
         /\ pc \in {"fetch", "returned"} =>
              /\ Passes(Records[idx])
              /\ success_count = Cardinality(PassIdx(idx))
              /\ failed_messages = FailureList(Records, idx)

C8_Case ==
  /\ SNS_TOPIC_ARN = ""
  /\ topicOutcome = "skipped"
  /\ pc = "fetch"
  /\ success_count = idx

(* The iteration for record i is over. *)
Completed(i) == i < idx \/ (i = idx /\ pc \in {"fetch", "returned"})

(* C9: a call is made only for a message that passed decode and            *)
(* validation, and only after its validation; each message gets at most    *)
(* one put_events and at most one publish (no retry), in that order and in *)
(* batch order; a message that passed has exactly one put_events once its  *)
(* iteration is over, and a publish only after its put_events.             *)
C9_PipelineOrderNoRepeat ==
  /\ \A j \in 1..Len(calls) : calls[j].idx \in 1..idx /\ Passes(Records[calls[j].idx])
  /\ pc \in {"decode", "validate", "send", "except"} =>
       \A j \in 1..Len(calls) : calls[j].idx # idx
  /\ \A i \in 1..idx :
       /\ Cardinality(CallsFor(i, "put_events")) <= 1 + MAX_RETRIES
       /\ Cardinality(CallsFor(i, "publish")) <= 1 + MAX_RETRIES
       /\ CallsFor(i, "publish") # {} => CallsFor(i, "put_events") # {}
       /\ (Completed(i) /\ Passes(Records[i])) => Cardinality(CallsFor(i, "put_events")) = 1
  /\ \A j, k \in 1..Len(calls) :
       j < k => \/ calls[j].idx < calls[k].idx
                \/ /\ calls[j].idx = calls[k].idx
                   /\ calls[j].api = "put_events"
                   /\ calls[k].api = "publish"

C9_Case ==
  /\ pc = "fetch"
  /\ idx = 2
  /\ ~Passes(Records[1])
  /\ busOutcome = "throw"
  /\ topicOutcome = "throw"
  /\ Len(calls) = 2

(* C10: at the head of the loop success_count + len(failed_messages) is    *)
(* the number of records taken, inside an iteration it is one less, and at *)
(* the return it is the batch size; the successes are the records taken    *)
(* that pass, so no record is counted twice and none is skipped.           *)
C10_EachRecordClassifiedOnce ==
  /\ pc = "fetch" =>
       /\ success_count + Len(failed_messages) = idx
       /\ success_count = Cardinality(PassIdx(idx))
  /\ pc \in {"decode", "validate", "send", "notify", "count", "except"} =>
       success_count + Len(failed_messages) = idx - 1
  /\ pc = "returned" =>
       /\ idx = Len(Records)
       /\ success_count + Len(failed_messages) = Len(Records)

C10_Case ==
  /\ pc = "returned"
  /\ success_count = 1
  /\ Len(failed_messages) = 1

(* C6 as stated: when the time budget expires, every record not yet taken  *)
(* is named in the batchItemFailures returned for the batch.               *)
C6_UnprocessedReturnedAsFailures ==
  pc = "timed_out" =>
    \A i \in (idx + 1)..Len(Records) : Identifier(Records[i]) \in ReportedIds

(* C6 amended: when the time budget expires the invocation ends without a  *)
(* result, so no batchItemFailures is returned; failed_messages holds the  *)
(* failures among the records already handled and no record not yet taken. *)
C6_TimeoutReturnsNothing ==
  pc = "timed_out" =>
    /\ result = NoResult
    /\ ReportedIds = {}
    /\ \E k \in {j \in 0..idx : j >= idx - 1} : failed_messages = FailureList(Records, k)

C6_Case ==
  /\ pc = "timed_out"
  /\ idx < Len(Records)
  /\ failed_messages # <<>>

(* ===================== properties of validate_order ===================== *)
(* The four checks as the documentation states them. *)
AllChecksHold(o) ==
  /\ \A i \in 1..Len(REQUIRED_FIELDS) : REQUIRED_FIELDS[i] \in DOMAIN o
  /\ HasLen(o["items"]) /\ o["items"].n >= 1
  /\ o["total"].kind \in {"bool", "number"} /\ o["total"].n > 0

(* C4: validate_order returns true exactly when the four keys are present, *)
(* items has length >= 1 and total is a value > 0, and false otherwise,    *)
(* malformed types included.                                               *)
C4_TrueExactlyWhenChecksHold ==
  valid # "none" => (valid = "true") = AllChecksHold(order)

(* Apart from a NaN total, validate_order agrees with the four checks. *)
ValidateAgreesApartFromNaN ==
  (valid # "none" /\ ~("total" \in DOMAIN order /\ order["total"].kind = "nan")) =>
    (valid = "true") = AllChecksHold(order)

====
